---- MODULE Spec2Model ----
(***************************************************************************)
(* FMU-explore scripts for the yeast batch reactor                         *)
(*   src/BPL_YEAST_COB_Batch_explore.py       (PyFMI backend)              *)
(*   src/BPL_YEAST_COB_Batch_fmpy_explore.py  (FMPy backend)               *)
(*                                                                         *)
(* The module state is the scripts' global state: the parameter store      *)
(* (parDict / parValue), the state store (stateDict / stateValue),         *)
(* prevFinalTime, the line-style cycle and the deferred plot instructions. *)
(* One action per user-callable function: par, init, newplot, show, simu.  *)
(* The variable `call` records what the last call was given and what it    *)
(* did that the caller can observe (messages printed, exception raised,    *)
(* for simu() the prevFinalTime it found, the simulate invocation handed   *)
(* to the backend and the final state the backend returned).  sumH and     *)
(* completed are history variables: the horizons summed over the           *)
(* successful runs since the last successful initial run, the number of    *)
(* successful runs (counted up to 2), and in drawn the line styles that    *)
(* the renders took from the cycle since it was last set.                  *)
(*                                                                         *)
(* model_description stands for the FMU the script was loaded with, as far *)
(* as the scripts depend on it: the plotted series that the FMU declares   *)
(* as local variables.                                                     *)
(*                                                                         *)
(* Names and model paths are sequences of one-character strings, so that   *)
(* the substring test of init() and the suffix rewriting of simu() are     *)
(* computed on the characters as the code computes them.                   *)
(* Numeric values are held in tenths (4.5 is 45), times in whole hours.    *)
(***************************************************************************)
EXTENDS Integers, Sequences, FiniteSets, TLC

VARIABLES variant, model_description, parDict, stateDict, prevFinalTime,
          linecycler, diagrams, sim_res, call, sumH, completed, drawn

vars == <<variant, model_description, parDict, stateDict, prevFinalTime,
          linecycler, diagrams, sim_res, call, sumH, completed, drawn>>

-----------------------------------------------------------------------------
(* Bounds of the exploration *)

\* largest number of keys in one override mapping of par() / init()
MaxKeys == 2
\* largest number of keys in one override mapping in the specification
\* that also runs simulations
MaxKeysRun == 1
\* largest horizon (simulationTime) given to simu(), in hours
MaxHorizon == 2
\* largest prevFinalTime explored
MaxTime == 3
\* longest stem of a state path (the characters before its ending)
MaxStem == 2
\* widest bracketed index of a state path, in digits
MaxIndex == 4
\* largest number of renders explored after the line-style cycle was set,
\* in the specification of the presentation
MaxDrawn == 5
\* the same in the specifications of the run driver, where newplot()
\* comes between the runs
MaxDrawnRun == 1

-----------------------------------------------------------------------------
(* Names: parameter names and model paths as character sequences *)

startMarker == <<"_","s","t","a","r","t">>

V_start == <<"V">> \o startMarker
VX_start == <<"V","X">> \o startMarker
VG_start == <<"V","G">> \o startMarker
VE_start == <<"V","E">> \o startMarker
mum == <<"m","u","m">>
qGr == <<"q","G","r">>
qEr == <<"q","E","r">>
qO2 == <<"q","O","2">>
mu == <<"m","u">>
\* two names the scripts do not declare: one without and one with the marker
foo == <<"f","o","o">>
X_start == <<"X">> \o startMarker

bioreactor == <<"b","i","o","r","e","a","c","t","o","r">>
culture == bioreactor \o <<".","c","u","l","t","u","r","e">>

\* 'sub in key' of Python for sequences of characters
Contains(key, sub) ==
    \E i \in 0..(Len(key) - Len(sub)) : SubSeq(key, i + 1, i + Len(sub)) = sub

-----------------------------------------------------------------------------
(* Values *)

Num(n) == [kind |-> "num", n |-> n]
None == [kind |-> "None", n |-> 0]
NaN == [kind |-> "nan", n |-> 0]
Empty == [kind |-> "str", n |-> 0]

\* parDict[key] in [np.nan, None, '']
IsMissing(v) == v \in {NaN, None, Empty}

-----------------------------------------------------------------------------
(* Dictionaries *)

\* dict.update
Update(d, x) ==
    [k \in DOMAIN d \cup DOMAIN x |-> IF k \in DOMAIN x THEN x[k] ELSE d[k]]

Restrict(d, S) == [k \in S |-> d[k]]

EmptyDict == [k \in {} |-> None]

parDictInitial ==
    [k \in {V_start, VX_start, VG_start, VE_start, mum, qGr, qEr, qO2} |->
        IF k = V_start THEN Num(45)
        ELSE IF k = VX_start THEN Num(10)
        ELSE IF k = VG_start THEN Num(100)
        ELSE Num(0)]

parLocation ==
    [k \in {V_start, VX_start, VG_start, VE_start, mum, qGr, qEr, qO2, mu} |->
        IF k = V_start THEN bioreactor \o <<".">> \o V_start
        ELSE IF k = VX_start THEN bioreactor \o <<".","m">> \o startMarker \o <<"[","1","]">>
        ELSE IF k = VG_start THEN bioreactor \o <<".","m">> \o startMarker \o <<"[","2","]">>
        ELSE IF k = VE_start THEN bioreactor \o <<".","m">> \o startMarker \o <<"[","3","]">>
        ELSE culture \o <<".">> \o k]

\* parCheck: the requirement strings, as (key, strict?) with bound 0
parCheck ==
    << [key |-> V_start, strict |-> TRUE],
       [key |-> VX_start, strict |-> FALSE],
       [key |-> VG_start, strict |-> FALSE] >>

-----------------------------------------------------------------------------
(* Override mappings offered to par() and init() *)

OverrideKeys == {V_start, VX_start, mum, foo, X_start}

\* the values offered for a key: a valid one, and where the code treats them
\* differently a missing one (None) and one that violates the key's requirement
OverrideValues(key) ==
    IF key = V_start THEN {Num(-10), Num(20), None}
    ELSE IF key \in {VX_start, mum} THEN {Num(20), None}
    ELSE {Num(20)}

Mappings(maxKeys) ==
    UNION { { m \in [S -> UNION { OverrideValues(k) : k \in S }] :
                \A k \in S : m[k] \in OverrideValues(k) } :
            S \in { T \in SUBSET OverrideKeys : Cardinality(T) <= maxKeys } }

\* The ways a call hands over its overrides, as <<keywords, mapping argument>>:
\* keywords only, a one-key mapping argument only, or one key given both ways
\* with different values.
CallArgs(maxKeys) ==
    { <<m, EmptyDict>> : m \in Mappings(maxKeys) }
    \cup { <<EmptyDict, m>> : m \in { n \in Mappings(maxKeys) : Cardinality(DOMAIN n) = 1 } }
    \cup UNION { { <<[k \in {key} |-> p[1]], [k \in {key} |-> p[2]]>> :
                    p \in { q \in OverrideValues(key) \X OverrideValues(key) : q[1] # q[2] } } :
                  key \in OverrideKeys }

-----------------------------------------------------------------------------
(* Messages and the record of the last call *)

Msg(kind, key) == [kind |-> kind, key |-> key]

NoCall ==
    [op |-> "none", kw |-> EmptyDict, x |-> EmptyDict, mode |-> "", H |-> 0,
     prev |-> 0, msgs |-> <<>>, raised |-> "", sim |-> <<>>, final |-> <<>>,
     rendered |-> <<>>, table |-> <<>>]

\* keys of a mapping in one fixed iteration order
RECURSIVE KeySeq(_)
KeySeq(S) ==
    IF S = {} THEN <<>>
    ELSE LET k == CHOOSE e \in S : TRUE IN <<k>> \o KeySeq(S \ {k})

RECURSIVE SelectMsgs(_, _, _)
\* one message of `kind` for each key of the sequence that is in `bad`
SelectMsgs(keys, bad, kind) ==
    IF keys = <<>> THEN <<>>
    ELSE (IF Head(keys) \in bad THEN <<Msg(kind, Head(keys))>> ELSE <<>>)
         \o SelectMsgs(Tail(keys), bad, kind)

-----------------------------------------------------------------------------
(* par() *)

\* eval(requirement): "true", "false", or "raise" (TypeError of None > 0, '' > 0)
EvalRequirement(store, req) ==
    LET v == store[req.key] IN
    IF v.kind \in {"None", "str"} THEN "raise"
    ELSE IF v.kind = "nan" THEN "false"
    ELSE IF req.strict THEN (IF v.n > 0 THEN "true" ELSE "false")
    ELSE (IF v.n >= 0 THEN "true" ELSE "false")

\* the list comprehension over parCheck stops at the first requirement that raises
ParCheckRaises(store) ==
    \E i \in 1..Len(parCheck) : EvalRequirement(store, parCheck[i]) = "raise"

RECURSIVE ParErrorsFrom(_, _)
ParErrorsFrom(store, i) ==
    IF i > Len(parCheck) THEN <<>>
    ELSE (IF EvalRequirement(store, parCheck[i]) = "false"
          THEN <<Msg("requirement", parCheck[i].key)>> ELSE <<>>)
         \o ParErrorsFrom(store, i + 1)

\* parErrors = [requirement for requirement in parCheck if not(eval(requirement))]
ParErrors(store) == ParErrorsFrom(store, 1)

\* mutant: the membership test of par() dropped
ParAccepts_Any(store, key) == TRUE

\* the keys par() accepts: key in parDict.keys()
ParAccepts(store, key) == key \in DOMAIN store

\* mutant: the keywords merged over the mapping argument
MergeArgs_KeywordsWin(kw, x) == Update(x, kw)

\* x_kwarg.update(*x): the mapping argument is merged over the keywords
MergeArgs(kw, x) == Update(kw, x)

par(kw, x) ==
    LET x_kwarg == MergeArgs(kw, x)
        known == { k \in DOMAIN x_kwarg : ParAccepts(parDict, k) }
        x_temp == Restrict(x_kwarg, known)
        notAccessible == SelectMsgs(KeySeq(DOMAIN x_kwarg), DOMAIN x_kwarg \ known,
                                    "not_accessible")
        store == Update(parDict, x_temp)
    IN
    /\ parDict' = store
    /\ call' = [NoCall EXCEPT
                  !.op = "par",
                  !.kw = kw,
                  !.x = x,
                  !.msgs = IF ParCheckRaises(store) THEN notAccessible
                           ELSE notAccessible \o ParErrors(store),
                  !.raised = IF ParCheckRaises(store) THEN "TypeError" ELSE ""]
    /\ UNCHANGED <<variant, model_description, stateDict, prevFinalTime, linecycler, diagrams, sim_res,
                   sumH, completed, drawn>>

-----------------------------------------------------------------------------
(* init() *)

\* mutant: the marker test of init() dropped
InitAccepts_Any(key) == TRUE

\* the keys init() accepts: '_start' in key
InitAccepts(key) == Contains(key, startMarker)

init(kw, x) ==
    LET x_kwarg == MergeArgs(kw, x)
        accepted == { k \in DOMAIN x_kwarg : InitAccepts(k) }
        x_init == Restrict(x_kwarg, accepted)
        notInitial == SelectMsgs(KeySeq(DOMAIN x_kwarg), DOMAIN x_kwarg \ accepted,
                                 "not_initial")
    IN
    /\ parDict' = Update(parDict, x_init)
    /\ call' = [NoCall EXCEPT !.op = "init", !.kw = kw, !.x = x, !.msgs = notInitial]
    /\ UNCHANGED <<variant, model_description, stateDict, prevFinalTime, linecycler, diagrams, sim_res,
                   sumH, completed, drawn>>

-----------------------------------------------------------------------------
(* Plotting: setLines(), newplot(), show() *)

\* setLines(): lines=['-','--',':','-.']
lines == <<"-", "--", ":", "-.">>

\* a deferred plot instruction: the axis, the series of sim_res it draws and
\* its line style ("linetype" for the style of the cycle)
Plot(ax, series, style) == [ax |-> ax, series |-> series, style |-> style]

conc(i) == bioreactor \o <<".","c","[", i, "]">>

\* the instructions newplot() appends for a plotType
Layout(plotType) ==
    IF plotType = "TimeSeries" THEN
        << Plot("ax1", conc("2"), "linetype"),
           Plot("ax2", conc("3"), "linetype"),
           Plot("ax3", conc("1"), "linetype") >>
    ELSE IF plotType = "TimeSeries2" THEN
        << Plot("ax1", conc("1"), "linetype"),
           Plot("ax2", culture \o <<".">> \o mu, "linetype"),
           Plot("ax3", conc("2"), "linetype"),
           Plot("ax3", conc("3"), "linetype"),
           Plot("ax3", <<>>, "legend") >>
    ELSE IF plotType = "Extended" THEN
        << Plot("ax11", conc("2"), "-"),
           Plot("ax11", conc("3"), "-"),
           Plot("ax21", conc("1"), "-"),
           Plot("ax12", culture \o <<".">> \o mu, "-"),
           Plot("ax22", culture \o <<".">> \o qO2, "b-") >>
    ELSE <<>>

\* the plotType values that reach a branch which clears and fills diagrams
LayoutDeclared(plotType) == plotType \in {"TimeSeries", "TimeSeries2", "Extended"}

\* newplot(): setLines() first; then the branch of plotType. Any other
\* plotType reaches `elif diagram == 'PhasePlane'`, where the name `diagram`
\* is not defined: NameError.
newplot(plotType) ==
    /\ linecycler' = 0
    /\ drawn' = <<>>
    /\ diagrams' = IF LayoutDeclared(plotType) THEN Layout(plotType) ELSE diagrams
    /\ call' = [NoCall EXCEPT
                  !.op = "newplot",
                  !.mode = plotType,
                  !.raised = IF LayoutDeclared(plotType) THEN "" ELSE "NameError"]
    /\ UNCHANGED <<variant, model_description, parDict, stateDict, prevFinalTime, sim_res, sumH, completed>>

\* linetype = next(linecycler) raises NameError while no cycle was ever set
RenderFails == linecycler = -1

\* mutant: the cycle never moves on
CycleNext_Stuck(pos) == pos

\* next(linecycler): the position after the element taken
CycleNext(pos) == (pos + 1) % Len(lines)

\* the series a plot instruction reads from sim_res (none for the legend)
SeriesOf(instrs) == { instrs[i].series : i \in 1..Len(instrs) } \ {<<>>}

\* every series a layout names
PlottedSeries == SeriesOf(Layout("TimeSeries2") \o Layout("Extended"))

\* the FMUs told apart: every plotted series is a local variable, or qO2
\* (which the scripts also set as a parameter) is none
ModelDescriptions == { PlottedSeries, PlottedSeries \ {culture \o <<".">> \o qO2} }

\* the series of the result of a run. PyFMI keeps every variable of the
\* FMU, so every series a layout names. FMPy is asked for the local
\* variables named in the instructions at the time of the run
\* (extract_variables), the states and key_variables.
Logged(v, locals, instrs, states) ==
    IF v = "pyfmi"
    THEN PlottedSeries \cup states
    ELSE (SeriesOf(instrs) \cap locals) \cup states \cup {culture \o <<".">> \o mu}

\* sim_res after a run: what was logged and the final state
Table(logged, final) == [logged |-> logged, final |-> final]

HasSeries(table, series) == series = <<>> \/ series \in table.logged

\* mutant: an instruction that raises does not stop the call
Evaluated_All(instrs, res) == instrs

RECURSIVE Evaluated(_, _)
\* for command in diagrams: eval(command): the instructions evaluated until
\* one of them raises. Every instruction reads sim_res, which is not defined
\* before the first run (res = <<>>), and a series that the table may lack.
Evaluated(instrs, res) ==
    IF instrs = <<>> \/ res = <<>> THEN <<>>
    ELSE IF ~HasSeries(res[1], Head(instrs).series) THEN <<>>
    ELSE <<Head(instrs)>> \o Evaluated(Tail(instrs), res)

\* the exception of the instruction that stopped the rendering
EvalRaised(instrs, res) ==
    IF Evaluated(instrs, res) = instrs THEN ""
    ELSE IF res = <<>> THEN "NameError" ELSE "ValueError"

\* the line style next(linecycler) returns
LineType(pos) == lines[pos + 1]

\* the line style an evaluated instruction draws with, given the linetype of
\* the render: linestyle=linetype, a fixed linestyle='-', or the format
\* string 'b-' (blue, solid)
StyleDrawn(instr, linetype) ==
    IF instr.style = "linetype" THEN linetype
    ELSE IF instr.style = "b-" THEN "-"
    ELSE instr.style

\* show(): next(linecycler), then every instruction is evaluated
show ==
    /\ linecycler' = IF RenderFails THEN linecycler ELSE CycleNext(linecycler)
    /\ drawn' = IF RenderFails THEN drawn ELSE Append(drawn, LineType(linecycler))
    /\ call' = [NoCall EXCEPT
                  !.op = "show",
                  !.rendered = IF RenderFails THEN <<>> ELSE Evaluated(diagrams, sim_res),
                  !.table = IF RenderFails THEN <<>> ELSE sim_res,
                  !.raised = IF RenderFails THEN "NameError"
                             ELSE EvalRaised(diagrams, sim_res)]
    /\ UNCHANGED <<variant, model_description, parDict, stateDict, prevFinalTime, diagrams, sim_res,
                   sumH, completed>>

-----------------------------------------------------------------------------
(* The state store and the continuation overrides *)

\* the tracked states of the FMU: the reactor volume and the three masses,
\* whose initial-value parameters parLocation names
volume == bioreactor \o <<".","V">>
mass(i) == bioreactor \o <<".","m","[", i, "]">>
StatePaths == {volume, mass("1"), mass("2"), mass("3")}

Obj == [kind |-> "object", n |-> 0]

\* before any run the state store holds no numbers: variable objects
\* (model.get_states_list()) or None (FMPy)
stateDictInitial(v) == [k \in StatePaths |-> IF v = "fmpy" THEN None ELSE Obj]

\* the final state vectors the backend may produce: all positive, or with the
\* small negative ethanol mass of the OpenModelica FMU
FinalStates ==
    { [k \in StatePaths |-> Num(10)],
      [k \in StatePaths |-> IF k = mass("3") THEN Num(-1) ELSE Num(20)] }

\* mutant: one character fewer cut off
DropLast_OneLess(key, n) == SubSeq(key, 1, Len(key) - n + 1)

\* key[:-n]
DropLast(key, n) == SubSeq(key, 1, Len(key) - n)
\* key[-n:] (the whole key when it is shorter than n)
Last(key, n) == SubSeq(key, IF Len(key) > n THEN Len(key) - n + 1 ELSE 1, Len(key))
\* key[-n]
At(key, n) == key[Len(key) - n + 1]

\* PyFMI, inline in simu(): the path model.set() is given for a state key;
\* <<>> when the index is too wide
setPath(key) ==
    IF At(key, 1) # "]" THEN
        IF Last(key, 3) = <<"I",".","y">> THEN DropLast(key, 10) \o <<"I">> \o startMarker
        ELSE IF Last(key, 3) = <<"D",".","x">> THEN DropLast(key, 10) \o <<"D">> \o startMarker
        ELSE key \o startMarker
    ELSE IF At(key, 3) = "[" THEN DropLast(key, 3) \o startMarker \o Last(key, 3)
    ELSE IF At(key, 4) = "[" THEN DropLast(key, 4) \o startMarker \o Last(key, 4)
    ELSE IF At(key, 5) = "[" THEN DropLast(key, 5) \o startMarker \o Last(key, 5)
    ELSE <<>>

\* FMPy, computed when the script is loaded: the initial-value path of a
\* state path; <<>> when the index is too wide
stateValueInitial(key) ==
    IF At(key, 1) # "]" THEN
        IF Last(key, 3) = <<"I",".","y">> THEN DropLast(key, 10) \o <<"I">> \o startMarker
        ELSE IF Last(key, 3) = <<"D",".","x">> THEN DropLast(key, 10) \o <<"D">> \o startMarker
        ELSE key \o startMarker
    ELSE IF At(key, 3) = "[" THEN DropLast(key, 3) \o startMarker \o Last(key, 3)
    ELSE IF At(key, 4) = "[" THEN DropLast(key, 4) \o startMarker \o Last(key, 4)
    ELSE IF At(key, 5) = "[" THEN DropLast(key, 5) \o startMarker \o Last(key, 5)
    ELSE <<>>

\* {parLocation[k]: parDict[k]} for the given names (all of them in parLocation)
ParOverrides(store, keys) ==
    [p \in { parLocation[k] : k \in keys } |->
        store[CHOOSE k \in keys : parLocation[k] = p]]

\* the initial-value path of a state key as the variant computes it
InitialPath(v, key) == IF v = "pyfmi" THEN setPath(key) ELSE stateValueInitial(key)

\* 'The state vector has more than 1000 states': no rule fits the key
TooWide(v, key) == InitialPath(v, key) = <<>>

RECURSIVE BeforeBreak(_, _)
\* the keys the loop over the state store visits before its `break`
BeforeBreak(v, keys) ==
    IF keys = <<>> \/ TooWide(v, Head(keys)) THEN <<>>
    ELSE <<Head(keys)>> \o BeforeBreak(v, Tail(keys))

RECURSIVE SetStates(_, _, _)
\* the state values set one after the other under their initial-value paths
SetStates(v, keys, states) ==
    IF keys = <<>> THEN EmptyDict
    ELSE LET k == keys[Len(keys)] IN
         Update(SetStates(v, SubSeq(keys, 1, Len(keys) - 1), states),
                [p \in {InitialPath(v, k)} |-> states[k]])

\* mutant: the states handed over as zero instead of their stored values
StateOverrides_Zero(v, states) ==
    [p \in { InitialPath(v, k) : k \in DOMAIN states } |-> Num(0)]

\* the stored state values under their initial-value paths, for the keys
\* the loop reaches
StateOverrides(v, states) ==
    SetStates(v, BeforeBreak(v, KeySeq(DOMAIN states)), states)

\* mutant: the parameters set after the states
ContinueOverrides_ParametersWin(v, store, states) ==
    Update(StateOverrides(v, states), ParOverrides(store, DOMAIN store))

\* PyFMI: model.set of every parameter, then of every state under its
\* initial-value path. FMPy: the parameters whose location is an
\* initial-value path are removed, then the state values are added.
ContinueOverrides(v, store, states) ==
    IF v = "pyfmi"
    THEN Update(ParOverrides(store, DOMAIN store), StateOverrides(v, states))
    ELSE Update(ParOverrides(store,
                    { k \in DOMAIN store :
                        parLocation[k] \notin { stateValueInitial(s) : s \in DOMAIN states } }),
                StateOverrides(v, states))

-----------------------------------------------------------------------------
(* simu() *)

IsInitialMode(mode) == mode \in {"Initial", "initial", "init"}
IsContinuedMode(mode) == mode \in {"Continued", "continued", "cont"}

\* mutant: the run also refuses a value that violates a requirement
MissingKeys_OrViolating(v, store) ==
    { k \in DOMAIN store :
        \/ v = "pyfmi" /\ IsMissing(store[k])
        \/ \E i \in 1..Len(parCheck) :
              /\ parCheck[i].key = k
              /\ EvalRequirement(store, parCheck[i]) = "false" }

\* the 'Check parDict' loop of the PyFMI script; the FMPy script has none
MissingKeys(v, store) ==
    IF v = "pyfmi" THEN { k \in DOMAIN store : IsMissing(store[k]) } ELSE {}

\* mutant: continuation allowed whatever prevFinalTime is
ContinueRejected_Never(prev) == FALSE

\* if prevFinalTime == 0: "Simulation is first done with default mode = init"
ContinueRejected(prev) == prev = 0

\* mutant: the initial run started at prevFinalTime
InitialStart_Prev(prev) == prev

\* start time of an initial run
InitialStart(prev) == 0

\* mutant: start_time left out of the continued run
ContinueStart_Zero(prev) == 0

\* start_time of a continued run
ContinueStart(prev) == prev

\* what the backend's simulate may do with the overrides it is given: it
\* returns, or (given a value that is no number) it may raise
BackendOutcomes(overrides) ==
    IF \E p \in DOMAIN overrides : overrides[p].kind # "num"
    THEN {"return", "raise"} ELSE {"return"}

Sim(start, H, overrides) == [start |-> start, stop |-> start + H, overrides |-> overrides]

\* the part of simu() of script v up to and including the call of simulate:
\* the messages printed, the exception raised and the simulate invocation.
\* (The PyFMI script also copies the horizon to the global simulationTime,
\* which nothing reads but the same call.)
SimuRunOf(v, H, mode) ==
    LET missing == MissingKeys(v, parDict)
        valueMissing == SelectMsgs(KeySeq(DOMAIN parDict), missing, "value_missing")
        noLocation == \E k \in DOMAIN parDict : k \notin DOMAIN parLocation
        tooWide == \E k \in DOMAIN stateDict : TooWide(v, k)
    IN
    IF missing # {} THEN
        [msgs |-> valueMissing, raised |-> "", sim |-> <<>>]
    ELSE IF IsInitialMode(mode) THEN
        IF noLocation
        THEN [msgs |-> <<>>, raised |-> "KeyError", sim |-> <<>>]
        ELSE [msgs |-> <<>>, raised |-> "",
              sim |-> <<Sim(InitialStart(prevFinalTime), H,
                            ParOverrides(parDict, DOMAIN parDict))>>]
    ELSE IF IsContinuedMode(mode) THEN
        IF ContinueRejected(prevFinalTime)
        THEN [msgs |-> <<Msg("ordering", <<>>), Msg("no_simulation_done", <<>>)>>,
              raised |-> "", sim |-> <<>>]
        ELSE IF noLocation
        THEN [msgs |-> <<>>, raised |-> "KeyError", sim |-> <<>>]
        ELSE IF tooWide /\ v = "fmpy"
        THEN \* stateValueInitial[key] of a key the loop at load never reached
             [msgs |-> <<>>, raised |-> "KeyError", sim |-> <<>>]
        ELSE [msgs |-> IF tooWide THEN <<Msg("too_wide", <<>>)>> ELSE <<>>,
              raised |-> "",
              sim |-> <<Sim(ContinueStart(prevFinalTime), H,
                            ContinueOverrides(v, parDict, stateDict))>>]
    ELSE [msgs |-> <<Msg("mode_not_correct", <<>>), Msg("no_simulation_done", <<>>)>>,
          raised |-> "", sim |-> <<>>]

\* the run of the script that is loaded
SimuRun(H, mode) == SimuRunOf(variant, H, mode)

\* simu(): `r` is the run up to simulate, `final` the final state the
\* backend produces and `outcome` whether its simulate returns; after
\* simulate returned, the instructions are rendered, the final state is
\* stored and the final time recorded.
simu(H, mode, r, final, outcome) ==
    LET invoked == r.sim # <<>>
        simulated == invoked /\ outcome = "return"
        res == <<Table(Logged(variant, model_description, diagrams, DOMAIN stateDict),
                       final)>>
        taken == simulated /\ ~RenderFails
        done == taken /\ Evaluated(diagrams, res) = diagrams
    IN
    /\ sim_res' = IF simulated THEN res ELSE sim_res
    /\ drawn' = IF taken THEN Append(drawn, LineType(linecycler)) ELSE drawn
    /\ call' = [NoCall EXCEPT
                  !.op = "simu", !.mode = mode, !.H = H,
                  !.prev = prevFinalTime,
                  !.msgs = r.msgs,
                  !.sim = r.sim,
                  !.final = IF simulated THEN <<final>> ELSE <<>>,
                  !.rendered = IF taken THEN Evaluated(diagrams, res) ELSE <<>>,
                  !.table = IF taken THEN res ELSE <<>>,
                  !.raised = IF r.raised # "" THEN r.raised
                             ELSE IF invoked /\ outcome = "raise" THEN "BackendError"
                             ELSE IF simulated /\ RenderFails THEN "NameError"
                             ELSE IF taken THEN EvalRaised(diagrams, res)
                             ELSE ""]
    /\ linecycler' = IF taken THEN CycleNext(linecycler) ELSE linecycler
    /\ stateDict' = IF done THEN final ELSE stateDict
    /\ prevFinalTime' = IF done THEN r.sim[1].stop ELSE prevFinalTime
    /\ sumH' = IF done THEN (IF IsInitialMode(mode) THEN H ELSE sumH + H) ELSE sumH
    /\ completed' = IF done THEN (IF completed < 2 THEN completed + 1 ELSE completed)
                    ELSE completed
    /\ UNCHANGED <<variant, model_description, parDict, diagrams>>

-----------------------------------------------------------------------------
(* Specification of the parameter manager alone: par() and init() *)

Init ==
    /\ variant \in {"pyfmi", "fmpy"}
    /\ model_description = PlottedSeries
    /\ parDict = parDictInitial
    /\ stateDict = stateDictInitial(variant)
    /\ prevFinalTime = 0
    /\ linecycler = -1
    /\ diagrams = <<>>
    /\ sim_res = <<>>
    /\ call = NoCall
    /\ sumH = 0
    /\ completed = 0
    /\ drawn = <<>>

ParArgs == CallArgs(MaxKeys)

ParCall == \E a \in ParArgs : par(a[1], a[2])

InitCall == \E a \in ParArgs : init(a[1], a[2])

NextPar == ParCall \/ InitCall

SpecPar == Init /\ [][NextPar]_vars

-----------------------------------------------------------------------------
(* Specification of the run driver: simu() between calls of par(), init(),  *)
(* newplot() and show()                                                     *)

RunKeys == {VX_start, mum, X_start}

\* overrides given by keyword, over the names that matter to a run: an
\* initial value, a plain parameter and a name without location
RunArgs ==
    { <<a, EmptyDict>> : a \in { n \in Mappings(MaxKeysRun) : DOMAIN n \subseteq RunKeys } }

Horizons == 0..MaxHorizon

Modes == {"init", "cont", "restart"}

RunPlotTypes == {"TimeSeries"}

ParRun == \E a \in RunArgs : par(a[1], a[2])

InitRun == \E a \in RunArgs : init(a[1], a[2])

NewplotRun == \E plotType \in RunPlotTypes : newplot(plotType)

\* a run whose simulate would end after MaxTime is not explored, nor a
\* render beyond MaxDrawnRun renders since the cycle was set
SimuCall ==
    \E H \in Horizons, mode \in Modes :
        LET r == SimuRun(H, mode) IN
        IF r.sim = <<>>
        THEN simu(H, mode, r, stateDict, "return")
        ELSE /\ r.sim[1].stop <= MaxTime
             /\ Len(drawn) < MaxDrawnRun
             /\ \E final \in FinalStates, outcome \in BackendOutcomes(r.sim[1].overrides) :
                    simu(H, mode, r, final, outcome)

ShowRun == Len(drawn) < MaxDrawnRun /\ show

Next == ParRun \/ InitRun \/ NewplotRun \/ ShowRun \/ SimuCall

Spec == Init /\ [][Next]_vars

-----------------------------------------------------------------------------
(* Specification of the suffix rules: the run driver over an FMU whose      *)
(* tracked state is any one path of a bounded set                           *)

\* all sequences over `chars` of a length from lo to hi
Seqs(chars, lo, hi) == UNION { [1..n -> chars] : n \in lo..hi }

\* the endings of the state paths: none, the integrator and derivative
\* outputs of a PID block (short, and as in 'limPID.I.y'), another output,
\* and bracketed indexes of 1 to MaxIndex digits
Tails ==
    { <<>>, <<"I",".","y">>, <<"D",".","x">>, <<".","y">>,
      <<"l","i","m","P","I","D",".","I",".","y">>,
      <<"l","i","m","P","I","D",".","D",".","x">> }
    \cup { <<"[">> \o d \o <<"]">> : d \in Seqs({"0", "1"}, 1, MaxIndex) }

Paths == { st \o tl : st \in Seqs({"a"}, 1, MaxStem), tl \in Tails }

\* the script loaded over an FMU with the one state `path`; the FMPy script
\* reports a too wide index while it is loaded
InitPath ==
    /\ variant \in {"pyfmi", "fmpy"}
    /\ model_description = PlottedSeries
    /\ parDict = parDictInitial
    /\ \E path \in Paths :
          stateDict = [k \in {path} |-> IF variant = "fmpy" THEN None ELSE Obj]
    /\ prevFinalTime = 0
    /\ linecycler = -1
    /\ diagrams = <<>>
    /\ call = [NoCall EXCEPT
                 !.msgs = IF variant = "fmpy" /\ \E k \in DOMAIN stateDict : TooWide(variant, k)
                          THEN <<Msg("too_wide", <<>>)>> ELSE <<>>]
    /\ sumH = 0
    /\ completed = 0
    /\ sim_res = <<>>
    /\ drawn = <<>>

\* the final state vectors the backend may produce for the tracked paths
FinalStatesOf(keys) == { [k \in keys |-> Num(10)], [k \in keys |-> Num(20)] }

PathModes == {"init", "cont"}

SimuPath ==
    \E H \in 1..MaxHorizon, mode \in PathModes :
        LET r == SimuRun(H, mode) IN
        IF r.sim = <<>>
        THEN simu(H, mode, r, stateDict, "return")
        ELSE /\ r.sim[1].stop <= MaxTime
             /\ Len(drawn) < MaxDrawnRun
             /\ \E final \in FinalStatesOf(DOMAIN stateDict) :
                    simu(H, mode, r, final, "return")

NextPath == NewplotRun \/ SimuPath

SpecPath == InitPath /\ [][NextPath]_vars

\* the state paths an FMU with two tracked states is drawn from: the
\* endings without index, a state named 'I', and one indexed state
PairPaths ==
    { st \o tl : st \in Seqs({"a"}, 1, MaxStem),
                 tl \in { t \in Tails : t = <<>> \/ t[1] # "[" }
                        \cup { <<"I">>, <<"[","1","]">> } }

\* the script loaded over an FMU with two distinct states
InitPairs ==
    /\ variant \in {"pyfmi", "fmpy"}
    /\ model_description = PlottedSeries
    /\ parDict = parDictInitial
    /\ \E p1 \in PairPaths, p2 \in PairPaths :
          /\ p1 # p2
          /\ stateDict = [k \in {p1, p2} |-> IF variant = "fmpy" THEN None ELSE Obj]
    /\ prevFinalTime = 0
    /\ linecycler = -1
    /\ diagrams = <<>>
    /\ sim_res = <<>>
    /\ call = NoCall
    /\ sumH = 0
    /\ completed = 0
    /\ drawn = <<>>

SpecPairs == InitPairs /\ [][NextPath]_vars

-----------------------------------------------------------------------------
(* Specification of the presentation: newplot() with every plotType and     *)
(* show(), between runs with the default parameters                         *)

\* the four layouts newplot() names and a plotType it does not know
PlotTypes == {"TimeSeries", "TimeSeries2", "Extended", "PhasePlane", "Pie"}

NewplotCall == \E plotType \in PlotTypes : newplot(plotType)

SimuPlot ==
    \E mode \in PathModes :
        LET r == SimuRun(1, mode) IN
        IF r.sim = <<>>
        THEN simu(1, mode, r, stateDict, "return")
        ELSE /\ r.sim[1].stop <= MaxTime
             /\ Len(drawn) < MaxDrawn
             /\ \E final \in FinalStates : simu(1, mode, r, final, "return")

ShowPlot == Len(drawn) < MaxDrawn /\ show

NextPlot == NewplotCall \/ ShowPlot \/ SimuPlot

\* the script loaded with either FMU
InitPlot ==
    /\ variant \in {"pyfmi", "fmpy"}
    /\ model_description \in ModelDescriptions
    /\ parDict = parDictInitial
    /\ stateDict = stateDictInitial(variant)
    /\ prevFinalTime = 0
    /\ linecycler = -1
    /\ diagrams = <<>>
    /\ sim_res = <<>>
    /\ call = NoCall
    /\ sumH = 0
    /\ completed = 0
    /\ drawn = <<>>

SpecPlot == InitPlot /\ [][NextPlot]_vars

-----------------------------------------------------------------------------
(* Specification of the validity predicates: par() and init() of the        *)
(* reactor volume, valid or not, between runs                               *)

\* V_start by keyword: 2.0, -1.0 (violates V_start > 0) or None
CheckArgs ==
    { <<a, EmptyDict>> : a \in { n \in Mappings(1) : DOMAIN n = {V_start} } }

ParCheck == \E a \in CheckArgs : par(a[1], a[2])

InitCheck == \E a \in CheckArgs : init(a[1], a[2])

SimuCheck ==
    \E mode \in PathModes :
        LET r == SimuRun(1, mode) IN
        IF r.sim = <<>>
        THEN simu(1, mode, r, stateDict, "return")
        ELSE /\ r.sim[1].stop <= MaxTime
             /\ Len(drawn) < MaxDrawnRun
             /\ \E final \in FinalStates, outcome \in BackendOutcomes(r.sim[1].overrides) :
                    simu(1, mode, r, final, outcome)

NextCheck == ParCheck \/ InitCheck \/ NewplotRun \/ SimuCheck

SpecCheck == Init /\ [][NextCheck]_vars

-----------------------------------------------------------------------------
(* Properties of the parameter manager, checked under SpecPar *)

\* the overrides a call was given: the mapping argument's value for a key it
\* holds, the keyword's value otherwise
Overrides(c) ==
    [k \in DOMAIN c.kw \cup DOMAIN c.x |->
        IF k \in DOMAIN c.x THEN c.x[k] ELSE c.kw[k]]

\* number of messages of a kind about a key
Count(msgs, kind, key) ==
    Cardinality({ i \in 1..Len(msgs) : msgs[i] = Msg(kind, key) })

CountKind(msgs, kind) ==
    Cardinality({ i \in 1..Len(msgs) : msgs[i].kind = kind })

\* C1: a par() call whose override keys are all absent from the parameter
\* store leaves the store as it was and reports exactly one 'not an
\* accessible parameter' error per key: one for each key, and no other.
C1_UnknownKeysOnly ==
    [][ ( /\ call'.op = "par"
          /\ \A k \in DOMAIN Overrides(call') : k \notin DOMAIN parDict )
        => ( /\ parDict' = parDict
             /\ \A k \in DOMAIN Overrides(call') :
                    Count(call'.msgs, "not_accessible", k) = 1
             /\ CountKind(call'.msgs, "not_accessible")
                    = Cardinality(DOMAIN Overrides(call')) ) ]_vars

\* a par() call with two keys, both unknown, has just returned
C1_Witness ==
    /\ call.op = "par"
    /\ DOMAIN Overrides(call) = {foo, X_start}
    /\ CountKind(call.msgs, "not_accessible") = 2
    /\ \A k \in DOMAIN Overrides(call) : k \notin DOMAIN parDict

C2_WitnessBothWays ==
    /\ call.op = "par"
    /\ DOMAIN call.kw = {V_start} /\ DOMAIN call.x = {V_start}
    /\ call.kw[V_start] # call.x[V_start]
    /\ parDict[V_start] = call.x[V_start]

\* a value violates a requirement (v > 0 or v >= 0)
Violates(v, req) ==
    /\ v.kind = "num"
    /\ IF req.strict THEN ~(v.n > 0) ELSE ~(v.n >= 0)

\* C3 (as claimed): after par() has applied an update that violates a
\* requirement of parCheck, the requirement is reported and the violating
\* value is retained in the store.
C3_FailSoft ==
    call.op = "par"
    => \A i \in 1..Len(parCheck) :
          ( /\ parCheck[i].key \in DOMAIN Overrides(call)
            /\ Violates(Overrides(call)[parCheck[i].key], parCheck[i]) )
          => ( /\ parDict[parCheck[i].key] = Overrides(call)[parCheck[i].key]
               /\ Count(call.msgs, "requirement", parCheck[i].key) = 1 )

\* C4 (as claimed): every name of the parameter store has a path in
\* parLocation.
C4_StoreWithinLocation == DOMAIN parDict \subseteq DOMAIN parLocation

\* C5: init() stores exactly the overrides whose key contains '_start';
\* every other key is reported once and its store entry is left as it was
\* (absent if it was absent), while the accepted keys of the call are stored.
C5_InitAcceptsMarkerOnly ==
    [][ call'.op = "init"
        => ( /\ \A k \in DOMAIN Overrides(call') :
                    IF Contains(k, startMarker)
                    THEN /\ k \in DOMAIN parDict'
                         /\ parDict'[k] = Overrides(call')[k]
                         /\ Count(call'.msgs, "not_initial", k) = 0
                    ELSE /\ Count(call'.msgs, "not_initial", k) = 1
                         /\ IF k \in DOMAIN parDict
                            THEN k \in DOMAIN parDict' /\ parDict'[k] = parDict[k]
                            ELSE k \notin DOMAIN parDict'
             /\ Len(call'.msgs) = Cardinality({ k \in DOMAIN Overrides(call') :
                                                  ~Contains(k, startMarker) })
             /\ \A k \in DOMAIN parDict \ DOMAIN Overrides(call') :
                    parDict'[k] = parDict[k] ) ]_vars

\* an init() call with an accepted and a rejected key has stored the
\* accepted one and reported the other
C5_Witness ==
    /\ call.op = "init"
    /\ DOMAIN Overrides(call) = {V_start, mum}
    /\ parDict[V_start] = Num(20)
    /\ Overrides(call)[mum] = Num(20) /\ parDict[mum] = Num(0)
    /\ Count(call.msgs, "not_initial", mum) = 1

-----------------------------------------------------------------------------
(* Properties of the run driver, checked under Spec *)

IsSimu(mode) == call.op = "simu" /\ mode

Invoked == call.sim # <<>>

StoreHasMissing == \E k \in DOMAIN parDict : IsMissing(parDict[k])

\* C6 (as claimed): a continue-mode simu() made while prevFinalTime is 0
\* reports the ordering error and does not invoke simulate.
C6_ContinueAtZero ==
    ( IsSimu(IsContinuedMode(call.mode)) /\ call.prev = 0 )
    => ( Count(call.msgs, "ordering", <<>>) = 1 /\ ~Invoked )

\* C6 (amended): a continue-mode simu() made while prevFinalTime is 0 never
\* invokes simulate and leaves prevFinalTime at 0; it reports the ordering
\* error, except that the PyFMI script, when a parameter value is missing,
\* reports 'Value missing' for it and returns before it looks at the mode.
C6_ContinueAtZeroAborts ==
    ( IsSimu(IsContinuedMode(call.mode)) /\ call.prev = 0 )
    => ( /\ ~Invoked
         /\ prevFinalTime = 0
         /\ IF variant = "pyfmi" /\ StoreHasMissing
            THEN /\ Count(call.msgs, "ordering", <<>>) = 0
                 /\ \A k \in DOMAIN parDict :
                       IsMissing(parDict[k]) => Count(call.msgs, "value_missing", k) = 1
            ELSE Count(call.msgs, "ordering", <<>>) = 1 )

\* a continue-mode simu() before any run has reported the ordering error
C6_Witness ==
    /\ IsSimu(IsContinuedMode(call.mode))
    /\ call.prev = 0 /\ completed = 0
    /\ Count(call.msgs, "ordering", <<>>) = 1
    /\ ~Invoked

\* C7 (as claimed): a continue-mode simu() that passed the parameter check
\* is rejected with the ordering error exactly when no run has completed
\* successfully before it.
C7_RejectedIffNoRun ==
    ( IsSimu(IsContinuedMode(call.mode)) /\ CountKind(call.msgs, "value_missing") = 0 )
    => ( Count(call.msgs, "ordering", <<>>) = 1 <=> completed = 0 )

\* C8: an accepted continue-mode run with horizon H hands simulate the start
\* time prevFinalTime and the stop time prevFinalTime + H; when the run
\* completes, prevFinalTime is that stop time.  prevFinalTime always equals
\* the horizons summed over the successful runs since the last successful
\* initial run, so the intervals of a chain are contiguous.
C8_ContinueInterval ==
    /\ ( IsSimu(IsContinuedMode(call.mode)) /\ Invoked )
       => ( /\ call.sim[1].start = call.prev
            /\ call.sim[1].stop = call.prev + call.H
            /\ call.raised = "" => prevFinalTime = call.sim[1].stop
            /\ call.raised # "" => prevFinalTime = call.prev )
    /\ prevFinalTime = sumH

\* a continued run over one hour has completed after two earlier hours
C8_Witness ==
    /\ IsSimu(IsContinuedMode(call.mode))
    /\ Invoked /\ call.raised = ""
    /\ call.prev = 2 /\ call.H = 1
    /\ call.sim[1].start = 2 /\ call.sim[1].stop = 3
    /\ prevFinalTime = 3 /\ completed = 2

\* C9 (as claimed): an init-mode simu() made while an entry of the parameter
\* store is missing reports 'Value missing' for it and does not invoke
\* simulate.
C9_MissingValueAborts ==
    ( IsSimu(IsInitialMode(call.mode)) /\ StoreHasMissing )
    => ( /\ ~Invoked
         /\ \A k \in DOMAIN parDict :
               IsMissing(parDict[k]) => Count(call.msgs, "value_missing", k) = 1 )

\* C10: an init-mode run with horizon H hands simulate the start time 0, the
\* stop time H and the parameter store under its model paths, whatever
\* prevFinalTime and the state store were; when it completes, prevFinalTime
\* is H.  It does invoke simulate unless a value is reported missing or a
\* name of the store has no model path.
C10_InitialInterval ==
    IsSimu(IsInitialMode(call.mode))
    => ( /\ Invoked
            => ( /\ call.sim[1].start = 0
                 /\ call.sim[1].stop = call.H
                 /\ DOMAIN call.sim[1].overrides = { parLocation[k] : k \in DOMAIN parDict }
                 /\ \A k \in DOMAIN parDict :
                       call.sim[1].overrides[parLocation[k]] = parDict[k]
                 /\ call.raised = "" => prevFinalTime = call.H )
         /\ ~Invoked
            => ( CountKind(call.msgs, "value_missing") > 0 \/ call.raised = "KeyError" ) )

\* par(VX_start=2.0), then an init-mode run over one hour made at
\* prevFinalTime 2 has completed
C10_Witness ==
    /\ IsSimu(IsInitialMode(call.mode))
    /\ Invoked /\ call.raised = ""
    /\ call.prev = 2 /\ call.H = 1
    /\ parDict[VX_start] = Num(20)
    /\ call.sim[1].overrides[parLocation[VX_start]] = Num(20)
    /\ prevFinalTime = 1 /\ completed = 2

\* C11: in an accepted continue-mode run, simulate is handed, for every
\* tracked state path, the value the state store holds for it (the final
\* value stored by the preceding successful run) under the state's
\* initial-value path.
C11_ContinuationRoundTrip ==
    [][ ( /\ call'.op = "simu"
          /\ IsContinuedMode(call'.mode)
          /\ call'.sim # <<>> )
        => \A k \in StatePaths :
              /\ stateValueInitial(k) \in DOMAIN call'.sim[1].overrides
              /\ call'.sim[1].overrides[stateValueInitial(k)] = stateDict[k] ]_vars

\* a continued run was handed the final state of the run before it, the
\* negative ethanol mass included, and not the initial values of the
\* parameter store
C11_Witness ==
    /\ IsSimu(IsContinuedMode(call.mode))
    /\ Invoked /\ call.raised = ""
    /\ completed = 2
    /\ call.sim[1].overrides[stateValueInitial(volume)] = Num(20)
    /\ call.sim[1].overrides[stateValueInitial(mass("3"))] = Num(-1)
    /\ parDict[V_start] = Num(45) /\ parDict[VE_start] = Num(0)

-----------------------------------------------------------------------------
(* Properties of the suffix rules, checked under SpecPath *)

EndsWith(key, tl) == Len(key) >= Len(tl) /\ SubSeq(key, Len(key) - Len(tl) + 1, Len(key)) = tl

\* the key without its last n characters (nothing left of a shorter key)
Without(key, n) == [i \in 1..(IF Len(key) > n THEN Len(key) - n ELSE 0) |-> key[i]]

\* the key ends in '[', 1 to 3 characters that are no brackets, ']'; i is the
\* position of that '['
IndexAt(key, i) ==
    /\ key[Len(key)] = "]"
    /\ key[i] = "["
    /\ Len(key) - i - 1 \in 1..3
    /\ \A j \in (i + 1)..(Len(key) - 1) : key[j] \notin {"[", "]"}

\* the initial-value path C12 states for a key, as a set: one path for a key
\* of the cases the claim covers, none for any other key
C12_Stated(key) ==
    IF key[Len(key)] # "]" THEN
        IF EndsWith(key, <<"I",".","y">>) THEN { Without(key, 10) \o <<"I","_","s","t","a","r","t">> }
        ELSE IF EndsWith(key, <<"D",".","x">>) THEN { Without(key, 10) \o <<"D","_","s","t","a","r","t">> }
        ELSE { key \o <<"_","s","t","a","r","t">> }
    ELSE { [j \in 1..(Len(key) + 6) |->
              IF j < i THEN key[j]
              ELSE IF j < i + 6 THEN <<"_","s","t","a","r","t">>[j - i + 1]
              ELSE key[j - 6]] :
           i \in { h \in 1..Len(key) : IndexAt(key, h) } }

\* C12: for every tracked state path of the cases stated (not ending in ']';
\* ending in a bracketed index of 1 to 3 characters) both scripts derive the
\* stated initial-value path, and an accepted continue-mode run hands
\* simulate the state's value under exactly that path, next to the
\* parameters' paths.
C12_SuffixSubstitution ==
    /\ \A k \in DOMAIN stateDict :
          /\ C12_Stated(k) # {} => ( /\ {setPath(k)} = C12_Stated(k)
                                      /\ {stateValueInitial(k)} = C12_Stated(k) )
          /\ setPath(k) = stateValueInitial(k)
    /\ ( /\ IsSimu(IsContinuedMode(call.mode)) /\ Invoked
         /\ \A k \in DOMAIN stateDict : C12_Stated(k) # {} )
       => DOMAIN call.sim[1].overrides
            = { parLocation[k] : k \in DOMAIN parDict }
              \cup UNION { C12_Stated(k) : k \in DOMAIN stateDict }

\* a continued run over the state 'alimPID.I.y' was handed 'aI_start'
C12_Witness ==
    /\ IsSimu(IsContinuedMode(call.mode)) /\ Invoked
    /\ DOMAIN stateDict = { <<"a","l","i","m","P","I","D",".","I",".","y">> }
    /\ <<"a","I","_","s","t","a","r","t">> \in DOMAIN call.sim[1].overrides

\* a continued run over the state 'aa[101]' was handed 'aa_start[101]'
C12_WitnessIndex ==
    /\ IsSimu(IsContinuedMode(call.mode)) /\ Invoked
    /\ DOMAIN stateDict = { <<"a","a","[","1","0","1","]">> }
    /\ <<"a","a","_","s","t","a","r","t","[","1","0","1","]">> \in DOMAIN call.sim[1].overrides

\* the key ends in a bracketed index of more than 3 digits
WideIndex(key) ==
    /\ key[Len(key)] = "]"
    /\ \E i \in 1..Len(key) :
          /\ key[i] = "["
          /\ Len(key) - i - 1 > 3
          /\ \A j \in (i + 1)..(Len(key) - 1) : key[j] \in {"0", "1"}

\* C13 (as claimed): a continue-mode run over a tracked state path whose
\* bracketed index is wider than 3 digits reports the condition and is
\* aborted: simulate is not invoked and prevFinalTime is left as it was.
C13_WideIndexAborts ==
    ( /\ IsSimu(IsContinuedMode(call.mode))
      /\ call.prev # 0
      /\ \E k \in DOMAIN stateDict : WideIndex(k) )
    => ( /\ CountKind(call.msgs, "too_wide") = 1
         /\ ~Invoked
         /\ prevFinalTime = call.prev )

-----------------------------------------------------------------------------
(* Further properties of the run driver, checked under Spec *)

\* simulate was invoked and returned
Returned == call.final # <<>>

\* C14 (as claimed): after a run in which simulate was invoked and returned,
\* the state store holds this run's final value for every tracked state path
\* and prevFinalTime is this run's final time.
C14_FinalStateStored ==
    ( call.op = "simu" /\ Returned )
    => ( /\ DOMAIN stateDict = StatePaths
         /\ \A k \in StatePaths : stateDict[k] = call.final[1][k]
         /\ prevFinalTime = call.sim[1].stop )

\* C15 (as claimed): no call of par(), init(), newplot(), simu() or show()
\* raises an exception to its caller.
C15_NoFault == call.raised = ""

\* C16 (as claimed): a simu() call made while a parameter value is missing,
\* in continue mode while prevFinalTime is 0, or with an unrecognised mode,
\* is aborted: simulate is not invoked, the line-style cycle is not advanced
\* (nothing is rendered), and the state store, the parameter store and
\* prevFinalTime are left as they were.
C16_AbortSkipsAll ==
    [][ ( /\ call'.op = "simu"
          /\ \/ StoreHasMissing
             \/ IsContinuedMode(call'.mode) /\ prevFinalTime = 0
             \/ ~IsInitialMode(call'.mode) /\ ~IsContinuedMode(call'.mode) )
        => ( /\ call'.sim = <<>>
             /\ linecycler' = linecycler
             /\ stateDict' = stateDict
             /\ parDict' = parDict
             /\ prevFinalTime' = prevFinalTime ) ]_vars

-----------------------------------------------------------------------------
(* Properties of the presentation, checked under SpecPlot *)

\* C17: the n-th render (by simu() or show()) since the line-style cycle
\* was set takes element (n-1) mod 4 of ('-', '--', ':', '-.'); so the first
\* three renders take three different styles and the fifth takes the style
\* of the first.
C17_CyclicLineStyle ==
    /\ \A n \in 1..Len(drawn) :
          drawn[n] = <<"-", "--", ":", "-.">>[((n - 1) % 4) + 1]
    /\ Len(drawn) >= 3 => Cardinality({drawn[1], drawn[2], drawn[3]}) = 3
    /\ Len(drawn) >= 5 => drawn[5] = drawn[1]
    /\ call.op \in {"show", "simu"} /\ call.table # <<>> => drawn # <<>>

\* five renders since newplot(), by runs and by show(), the fifth with '-'
C17_Witness ==
    /\ Len(drawn) = 5
    /\ drawn[5] = "-" /\ drawn[4] = "-."
    /\ call.op = "show" /\ call.rendered = diagrams /\ diagrams # <<>>
    /\ completed = 2

\* C18 (as claimed): after newplot() for one of the four layouts the list of
\* deferred instructions holds exactly the instructions of that layout (the
\* PhasePlane branch appends none), and a plotType that is none of the four
\* is reported as 'Plot window type not correct'.
C18_LayoutReplaced ==
    call.op = "newplot"
    => IF call.mode \in {"TimeSeries", "TimeSeries2", "Extended", "PhasePlane"}
       THEN diagrams = Layout(call.mode)
       ELSE Count(call.msgs, "plot_type_not_correct", <<>>) = 1

\* C19 (as claimed): a show() made when a layout is declared and a run has
\* left a result table evaluates exactly the instructions of `diagrams`
\* (the layout declared last, also when it was declared after the run)
\* against that table, does not invoke simulate and leaves the parameter
\* store, the state store and prevFinalTime as they were.
C19_ShowRerenders ==
    [][ ( /\ call'.op = "show"
          /\ diagrams # <<>>
          /\ sim_res # <<>> )
        => ( /\ call'.rendered = diagrams
             /\ call'.table = sim_res
             /\ call'.raised = ""
             /\ call'.sim = <<>>
             /\ sim_res' = sim_res
             /\ parDict' = parDict
             /\ stateDict' = stateDict
             /\ prevFinalTime' = prevFinalTime ) ]_vars

-----------------------------------------------------------------------------
(* The two scripts compared, checked under Spec *)

\* C20 (as claimed): from the same parameter store, state store and
\* prevFinalTime, a simu() call makes in both scripts the same accept/abort
\* decision and hands simulate the same start time, stop time and
\* (path, value) overrides: the run the loaded script made is the run either
\* script makes. par() and init() are the same code in both scripts, so the
\* parameter stores stay equal, and prevFinalTime with them.
C20_SameRunInBothScripts ==
    [][ call'.op = "simu"
        => ( /\ call'.sim = SimuRunOf("pyfmi", call'.H, call'.mode).sim
             /\ call'.sim = SimuRunOf("fmpy", call'.H, call'.mode).sim ) ]_vars

-----------------------------------------------------------------------------
(* Further properties of the presentation, checked under SpecPlot *)

\* a render has taken a line style and evaluated instructions
Rendered == call.op \in {"show", "simu"} /\ call.rendered # <<>>

\* C21 (as claimed): every instruction a render draws is drawn with the line
\* style the render took from the cycle, whatever the layout.
C21_DrawnWithCycleStyle ==
    Rendered
    => \A i \in 1..Len(call.rendered) :
          call.rendered[i].series # <<>>
          => StyleDrawn(call.rendered[i], drawn[Len(drawn)]) = drawn[Len(drawn)]

-----------------------------------------------------------------------------
(* Further properties of the state store, checked under Spec *)

\* C22 (as claimed): after a successful run every value of the state store
\* is a number greater than or equal to 0.
C22_StoreNonNegative ==
    ( call.op = "simu" /\ Invoked /\ call.raised = "" )
    => \A k \in DOMAIN stateDict : stateDict[k].kind = "num" /\ stateDict[k].n >= 0

\* the parameters located at the initial-value path of a tracked state, and
\* the plain parameters
InitialValuePars == {V_start, VX_start, VG_start, VE_start}
PlainPars == {mum, qGr, qEr, qO2}

\* C23: an accepted continue-mode run hands simulate, at the model path of
\* each initial-value parameter, the stored value of the state located
\* there, whatever par()/init() made of the parameter; each plain parameter
\* goes with the value the parameter store holds; and the overrides hold
\* one entry for each state and each plain parameter, no other.
C23_StatePrecedence ==
    [][ ( /\ call'.op = "simu"
          /\ IsContinuedMode(call'.mode)
          /\ call'.sim # <<>> )
        => LET ov == call'.sim[1].overrides IN
           /\ \A k \in InitialValuePars :
                 \E st \in StatePaths :
                    /\ stateValueInitial(st) = parLocation[k]
                    /\ ov[parLocation[k]] = stateDict[st]
           /\ \A k \in PlainPars : ov[parLocation[k]] = parDict[k]
           /\ Cardinality(DOMAIN ov) = Cardinality(StatePaths) + Cardinality(PlainPars) ]_vars

\* a continued run was handed the stored biomass, not the VX_start that
\* par() had set to 2.0, and the mum that par() had set to 2.0
C23_Witness ==
    /\ IsSimu(IsContinuedMode(call.mode))
    /\ Invoked /\ call.raised = ""
    /\ parDict[VX_start] = Num(20)
    /\ call.sim[1].overrides[parLocation[VX_start]] = Num(10)
    /\ parDict[mum] = Num(20)
    /\ call.sim[1].overrides[parLocation[mum]] = Num(20)

-----------------------------------------------------------------------------
(* Properties of the validity predicates, checked under SpecCheck *)

\* the store violates a requirement of parCheck
StoreViolates ==
    \E i \in 1..Len(parCheck) : Violates(parDict[parCheck[i].key], parCheck[i])

\* C24: init() stores a value that violates a requirement and reports
\* nothing about it; simu() reports no requirement either, and with a store
\* that violates one its init-mode run hands the violating store to
\* simulate, unless (PyFMI) a value is missing. par(), when its check does
\* not raise, is the one call that reports the violation.
C24_PredicatesOnlyInPar ==
    /\ call.op = "init"
       => ( /\ CountKind(call.msgs, "requirement") = 0
            /\ \A k \in DOMAIN Overrides(call) :
                  Contains(k, startMarker) => parDict[k] = Overrides(call)[k] )
    /\ call.op = "simu" => CountKind(call.msgs, "requirement") = 0
    /\ ( IsSimu(IsInitialMode(call.mode)) /\ StoreViolates )
       => ( /\ ~Invoked <=> ( variant = "pyfmi" /\ StoreHasMissing )
            /\ Invoked => \A k \in DOMAIN parDict :
                             call.sim[1].overrides[parLocation[k]] = parDict[k] )
    /\ ( call.op = "par" /\ call.raised = "" )
       => ( CountKind(call.msgs, "requirement") > 0 <=> StoreViolates )

\* after init(V_start=-1), reported by nothing, an init-mode run has handed
\* the negative volume to simulate
C24_Witness ==
    /\ IsSimu(IsInitialMode(call.mode))
    /\ Invoked
    /\ parDict[V_start] = Num(-10)
    /\ call.sim[1].overrides[parLocation[V_start]] = Num(-10)
    /\ call.msgs = <<>>

\* init(V_start=-1) has stored the value and printed nothing
C24_WitnessInit ==
    /\ call.op = "init"
    /\ Overrides(call)[V_start] = Num(-10)
    /\ parDict[V_start] = Num(-10)
    /\ call.msgs = <<>>

\* the rendering of a run's result fails: no line-style cycle is set, or an
\* instruction names a series the result table lacks
RenderingFails(table) ==
    \/ linecycler = -1
    \/ \E i \in 1..Len(diagrams) :
          diagrams[i].series # <<>> /\ diagrams[i].series \notin table.logged

\* C25: when simulate has returned in a simu() call, the result table is
\* the new one; if the rendering then succeeds, all instructions are
\* rendered and the final state and the final time are stored; if it fails,
\* the call raises and the state store and prevFinalTime keep their
\* pre-run values.  A continue-mode run always starts from the state store,
\* so after a failed rendering from the older state.
C25_RenderBeforeStore ==
    [][ /\ ( call'.op = "simu" /\ call'.final # <<>> )
           => ( /\ sim_res' # <<>>
                /\ sim_res'[1].final = call'.final[1]
                /\ IF RenderingFails(sim_res'[1])
                   THEN /\ call'.raised \in {"NameError", "ValueError"}
                        /\ call'.rendered # diagrams \/ linecycler = -1
                        /\ stateDict' = stateDict
                        /\ prevFinalTime' = prevFinalTime
                   ELSE /\ call'.raised = ""
                        /\ call'.rendered = diagrams
                        /\ stateDict' = call'.final[1]
                        /\ prevFinalTime' = call'.sim[1].stop )
        /\ ( call'.op = "simu" /\ IsContinuedMode(call'.mode) /\ call'.sim # <<>> )
           => \A k \in StatePaths :
                 call'.sim[1].overrides[stateValueInitial(k)] = stateDict[k] ]_vars

\* after one successful run, a continued run has returned another final
\* state, its rendering has failed on a missing series, and the state store
\* and prevFinalTime are those of the first run
C25_Witness ==
    /\ IsSimu(IsContinuedMode(call.mode))
    /\ call.final # <<>>
    /\ call.raised = "ValueError"
    /\ completed = 1
    /\ stateDict # call.final[1]
    /\ \A k \in StatePaths : call.sim[1].overrides[stateValueInitial(k)] = stateDict[k]
    /\ prevFinalTime = call.prev /\ call.prev = 1

\* the first run has returned but no line-style cycle was set: the state
\* store is still the initial one and prevFinalTime is 0
C25_WitnessNoCycle ==
    /\ IsSimu(IsInitialMode(call.mode))
    /\ call.final # <<>>
    /\ call.raised = "NameError"
    /\ stateDict = stateDictInitial(variant)
    /\ prevFinalTime = 0

-----------------------------------------------------------------------------
(* Properties of the suffix rules over two tracked states, checked under    *)
(* SpecPairs                                                                *)

\* C26 (as claimed): two distinct tracked state paths never have the same
\* initial-value path, so an accepted continue-mode run hands simulate one
\* override for each tracked state next to those of the parameters.
C26_InjectiveMapping ==
    ( IsSimu(IsContinuedMode(call.mode)) /\ Invoked )
    => ( /\ \A k1 \in DOMAIN stateDict, k2 \in DOMAIN stateDict :
               k1 # k2 => InitialPath(variant, k1) # InitialPath(variant, k2)
         /\ Cardinality(DOMAIN call.sim[1].overrides)
               = Cardinality(DOMAIN parDict) + Cardinality(DOMAIN stateDict) )

====
